---- MODULE Spec2Model ----
(***************************************************************************)
(* string_repeater (src/src/main.rs): main reads one line, spawns one      *)
(* processor_task per hardware thread and one logger_task, registers a     *)
(* Ctrl+C handler, joins every thread and prints a summary.                *)
(*                                                                         *)
(* Time is counted in milliseconds.  Text is a sequence of one-character   *)
(* strings, so that widths, padding and file offsets are computed.         *)
(* The console is kept as a bag of lines (their order is not modelled).    *)
(* Atomics are single memory cells: a store takes effect in the step that  *)
(* performs it, a fetch_add is one read-modify-write step.                 *)
(***************************************************************************)
EXTENDS Integers, Sequences, FiniteSets, Bags, TLC

\* ---------------------------------------------------------------- bounds
MaxWorkers == 2      \* largest value available_parallelism() yields here
MaxCount == 2        \* no iteration is started that would count past this
MaxTime == 2000      \* the clock stops here unless a sleeper must wake to exit
ClockStep == 500     \* the clock is observed every ClockStep ms
MaxBlank == 1        \* blank lines the operator enters before something else
MaxInterrupts == 2   \* Ctrl+C deliveries

\* ------------------------------------------------------ program constants
LOG_UPDATE_INTERVAL_MS == 1000
LOG_LINE_WIDTH == 100
check_interval == 100
UsizeDigits == 20     \* decimal digits of usize::MAX and of u64::MAX

\* ------------------------------------------------------------------ text
Digits == <<"0", "1", "2", "3", "4", "5", "6", "7", "8", "9">>

Whitespace == {" ", "\t", "\n", "\r"}

RECURSIVE ToDec(_)
\* Display of an unsigned integer: its decimal digits, no padding.
ToDec(n) ==
    IF n < 10 THEN <<Digits[n + 1]>>
    ELSE ToDec(n \div 10) \o <<Digits[(n % 10) + 1]>>

Spaces(k) == [i \in 1..k |-> " "]

\* {:<w}: left-justified in a field of AT LEAST w characters; a longer
\* text is kept whole (a width never truncates).
PadRight(s, w) == IF Len(s) >= w THEN s ELSE s \o Spaces(w - Len(s))

\* num/den rounded to hundredths, ties to even (exact-mode float formatting).
Hundredths(num, den) ==
    LET q == (num * 100) \div den
        r == (num * 100) % den
    IN  IF 2 * r > den \/ (2 * r = den /\ q % 2 = 1) THEN q + 1 ELSE q

\* {:.2} / {:.2?} of the non-negative value num/den: fixed notation, two decimals.
Fixed2(num, den) ==
    LET h == Hundredths(num, den)
    IN  ToDec(h \div 100) \o <<".">> \o
        <<Digits[((h % 100) \div 10) + 1], Digits[(h % 10) + 1]>>

RECURSIVE TrimStart(_)
TrimStart(s) ==
    IF s # <<>> /\ Head(s) \in Whitespace THEN TrimStart(Tail(s)) ELSE s

RECURSIVE TrimEnd(_)
TrimEnd(s) ==
    IF s # <<>> /\ s[Len(s)] \in Whitespace
    THEN TrimEnd(SubSeq(s, 1, Len(s) - 1)) ELSE s

\* str::trim
Trim(s) == TrimEnd(TrimStart(s))

LabelProcessed == <<"P", "r", "o", "c", "e", "s", "s", "e", "d", ":", " ">>
LabelElapsed == <<" ", "|", " ", "E", "l", "a", "p", "s", "e", "d", ":", " ">>
LabelSpeed == <<"s", " ", "|", " ", "S", "p", "e", "e", "d", ":", " ">>
LabelPerSec == <<"/", "s">>

\* average_speed as the fraction it is computed from: count / elapsed seconds,
\* or 0 when no time has elapsed.
AverageSpeed(count, elapsed_ms) ==
    IF elapsed_ms > 0 THEN <<count * 1000, elapsed_ms>> ELSE <<0, 1>>

\* The first format! call on the three formatted values: each labelled field
\* is at least its field width wide.
StatsStringText(count_text, elapsed_text, speed_text) ==
    LabelProcessed \o PadRight(count_text, 15) \o
    LabelElapsed \o PadRight(elapsed_text, 10) \o
    LabelSpeed \o PadRight(speed_text, 15) \o
    LabelPerSec

\* stats_string for a count and an elapsed time.
StatsString(count, elapsed_ms) ==
    LET speed == AverageSpeed(count, elapsed_ms)
    IN  StatsStringText(ToDec(count), Fixed2(elapsed_ms, 1000),
                        Fixed2(speed[1], speed[2]))

\* Mutant: the line is written as formatted, without the padding.
PaddedStatsString_NoPad(count, elapsed_ms) == StatsString(count, elapsed_ms)

\* padded_stats_string: stats_string in a field of at least LOG_LINE_WIDTH.
PaddedStatsString(count, elapsed_ms) ==
    PadRight(StatsString(count, elapsed_ms), LOG_LINE_WIDTH)

\* ------------------------------------------------------------------ file
\* File contents after writing data at byte offset pos (a gap reads as NUL).
Overwrite(bytes, pos, data) ==
    LET n == IF pos + Len(data) > Len(bytes) THEN pos + Len(data) ELSE Len(bytes)
    IN  [i \in 1..n |->
            IF i > pos /\ i <= pos + Len(data) THEN data[i - pos]
            ELSE IF i <= Len(bytes) THEN bytes[i]
            ELSE "NUL"]

\* ----------------------------------------------------------------- state
VARIABLES
    now,                \* the monotonic clock, ms
    stdin_blanks,       \* blank lines read so far
    pcMain,             \* main's position
    user_string,        \* the trimmed input (shared_user_string)
    num_worker_threads,
    processed_counter,  \* AtomicUsize
    running_flag,       \* AtomicBool
    start_time,
    join_index,         \* handles of thread_handles already joined
    handler_set,        \* ctrlc handler registered
    interrupts,         \* Ctrl+C deliveries so far
    log_exists,         \* stats.log exists in the working directory
    log_bytes,          \* its contents
    log_open,           \* main has opened it
    log_pos,            \* cursor of the open File
    pcW,                \* processor_task position, per worker
    done_ops,           \* fetch_add calls completed, per worker
    pcL,                \* logger_task position
    last_log_time,
    wake_at,            \* end of the logger's current sleep
    processed_count,    \* logger's local
    padded_stats_string,\* logger's local
    console,            \* bag of lines printed to stdout/stderr
    writes,             \* completed log writes: <<count, time>> each
    at_stop,            \* done_ops when running_flag first became false
    writes_at_stop      \* WriteCalls when running_flag first became false

vars == <<now, stdin_blanks, pcMain, user_string, num_worker_threads,
          processed_counter, running_flag, start_time, join_index,
          handler_set, interrupts, log_exists, log_bytes, log_open, log_pos,
          pcW, done_ops, pcL, last_log_time, wake_at, processed_count,
          padded_stats_string, console, writes, at_stop, writes_at_stop>>

mainVars == <<stdin_blanks, pcMain, user_string, num_worker_threads,
              start_time, join_index, handler_set>>
fileVars == <<log_exists, log_bytes, log_open, log_pos>>
workerVars == <<pcW, done_ops>>
loggerVars == <<pcL, last_log_time, wake_at, processed_count,
                padded_stats_string, writes>>

Workers == 1..MaxWorkers

\* A line a previous run left in stats.log.
OldLine == PaddedStatsString(7, 3000)

\* What the operator may type at the prompt (read_line keeps the newline).
InputLines ==
    { <<"\n">>, <<" ", "\t", "\n">>, <<" ", "a", "b", " ", "\n">> }

Msg(tag, n, text) == [tag |-> tag, n |-> n, text |-> text]

\* The status the process ends with: 0 when main returns Ok, 1 when it
\* returns Err, 101 when it panics; -1 while it runs.
ExitCode ==
    CASE pcMain \in {"exit_eof", "finished"} -> 0
      [] pcMain = "exit_err" -> 1
      [] pcMain = "panicked" -> 101
      [] OTHER -> -1

\* The calls of write_all that have returned, with Ok or with Err.
WriteCalls == Len(writes) + CopiesIn(Msg("write_error", 0, <<>>), console)

\* The process is gone once main has returned or panicked.
ProcessAlive == pcMain \notin {"exit_eof", "exit_err", "panicked", "finished"}

TypeOK ==
    /\ now \in Nat
    /\ pcMain \in {"prompt", "parallelism", "open_log", "spawn_workers",
                   "spawn_logger", "set_handler", "join", "summary",
                   "exit_eof", "exit_err", "panicked", "finished"}
    /\ processed_counter \in Nat
    /\ running_flag \in BOOLEAN
    /\ pcW \in [Workers -> {"unspawned", "check", "body", "done"}]
    /\ pcL \in {"unspawned", "start", "loop", "check2", "read", "seek",
                "write", "stamp", "sleeping", "stopping", "done",
                "panicked"}
    /\ writes_at_stop \in 0..WriteCalls

Init ==
    /\ now = 0
    /\ stdin_blanks = 0
    /\ pcMain = "prompt"
    /\ user_string = <<>>
    /\ num_worker_threads = 0
    /\ processed_counter = 0
    /\ running_flag = TRUE
    /\ start_time = 0
    /\ join_index = 0
    /\ handler_set = FALSE
    /\ interrupts = 0
    /\ log_exists \in BOOLEAN
    /\ log_bytes = IF log_exists THEN OldLine ELSE <<>>
    /\ log_open = FALSE
    /\ log_pos = 0
    /\ pcW = [w \in Workers |-> "unspawned"]
    /\ done_ops = [w \in Workers |-> 0]
    /\ pcL = "unspawned"
    /\ last_log_time = 0
    /\ wake_at = 0
    /\ processed_count = 0
    /\ padded_stats_string = <<>>
    /\ console = EmptyBag
    /\ writes = <<>>
    /\ at_stop = [w \in Workers |-> 0]
    /\ writes_at_stop = 0

\* ------------------------------------------------------------------ main
\* Mutant: the log is created, or emptied, before the input is read.
ReadEOF_OpensLog ==
    /\ pcMain = "prompt"
    /\ pcMain' = "exit_eof"
    /\ log_exists' = TRUE
    /\ log_bytes' = <<>>
    /\ console' = console (+) SetToBag({Msg("prompt", 0, <<>>)})
                          (+) SetToBag({Msg("eof", 0, <<>>)})
    /\ UNCHANGED <<now, stdin_blanks, user_string, num_worker_threads,
                   processed_counter, running_flag, start_time, join_index,
                   handler_set, interrupts, log_open, log_pos, workerVars,
                   loggerVars, at_stop, writes_at_stop>>

\* read_line returns Ok(0): end of input, main returns Ok(()).
ReadEOF ==
    /\ pcMain = "prompt"
    /\ pcMain' = "exit_eof"
    /\ console' = console (+) SetToBag({Msg("prompt", 0, <<>>)})
                          (+) SetToBag({Msg("eof", 0, <<>>)})
    /\ UNCHANGED <<now, stdin_blanks, user_string, num_worker_threads,
                   processed_counter, running_flag, start_time, join_index,
                   handler_set, interrupts, fileVars, workerVars, loggerVars,
                   at_stop, writes_at_stop>>

\* Mutant: a line that trims to nothing is taken as the text to repeat.
ReadBlank_Accepts ==
    /\ pcMain = "prompt"
    /\ stdin_blanks < MaxBlank
    /\ \E line \in InputLines :
        /\ Trim(line) = <<>>
        /\ stdin_blanks' = stdin_blanks + 1
        /\ user_string' = Trim(line)
        /\ console' = console (+) SetToBag({Msg("prompt", 0, <<>>)})
                              (+) SetToBag({Msg("repeating", 0, Trim(line))})
    /\ pcMain' = "parallelism"
    /\ UNCHANGED <<now, num_worker_threads, processed_counter, running_flag,
                   start_time, join_index, handler_set, interrupts, fileVars,
                   workerVars, loggerVars, at_stop, writes_at_stop>>

\* A line that trims to nothing: complain and prompt again.
ReadBlank ==
    /\ pcMain = "prompt"
    /\ stdin_blanks < MaxBlank
    /\ \E line \in InputLines :
        /\ Trim(line) = <<>>
        /\ stdin_blanks' = stdin_blanks + 1
        /\ console' = console (+) SetToBag({Msg("prompt", 0, <<>>)})
                              (+) SetToBag({Msg("empty_input", 0, <<>>)})
    /\ UNCHANGED <<now, pcMain, user_string, num_worker_threads,
                   processed_counter, running_flag, start_time, join_index,
                   handler_set, interrupts, fileVars, workerVars, loggerVars,
                   at_stop, writes_at_stop>>

\* A line with text: keep it trimmed and leave the input loop.
ReadValid ==
    /\ pcMain = "prompt"
    /\ \E line \in InputLines :
        /\ Trim(line) # <<>>
        /\ user_string' = Trim(line)
        /\ console' = console (+) SetToBag({Msg("prompt", 0, <<>>)})
                              (+) SetToBag({Msg("repeating", 0, Trim(line))})
    /\ pcMain' = "parallelism"
    /\ UNCHANGED <<now, stdin_blanks, num_worker_threads, processed_counter,
                   running_flag, start_time, join_index, handler_set,
                   interrupts, fileVars, workerVars, loggerVars,
                   at_stop, writes_at_stop>>

\* read_line fails: main returns the error.
ReadError ==
    /\ pcMain = "prompt"
    /\ pcMain' = "exit_err"
    /\ console' = console (+) SetToBag({Msg("prompt", 0, <<>>)})
                          (+) SetToBag({Msg("read_error", 0, <<>>)})
    /\ UNCHANGED <<now, stdin_blanks, user_string, num_worker_threads,
                   processed_counter, running_flag, start_time, join_index,
                   handler_set, interrupts, fileVars, workerVars, loggerVars,
                   at_stop, writes_at_stop>>

\* available_parallelism succeeds; the counter, the flag and the start time
\* are created.
DetectParallelism ==
    /\ pcMain = "parallelism"
    /\ \E n \in 1..MaxWorkers :
        /\ num_worker_threads' = n
        /\ console' = console (+) SetToBag({Msg("will_spawn", n, <<>>)})
    /\ processed_counter' = 0
    /\ running_flag' = TRUE
    /\ start_time' = now
    /\ pcMain' = "open_log"
    /\ UNCHANGED <<now, stdin_blanks, user_string, join_index, handler_set,
                   interrupts, fileVars, workerVars, loggerVars,
                   at_stop, writes_at_stop>>

\* available_parallelism()? fails: main returns the error.
ParallelismError ==
    /\ pcMain = "parallelism"
    /\ pcMain' = "exit_err"
    /\ UNCHANGED <<now, stdin_blanks, user_string, num_worker_threads,
                   processed_counter, running_flag, start_time, join_index,
                   handler_set, interrupts, fileVars, workerVars, loggerVars,
                   console, at_stop, writes_at_stop>>

\* Mutant: the file is opened without truncate(true).
OpenLog_NoTruncate ==
    /\ pcMain = "open_log"
    /\ log_exists' = TRUE
    /\ log_open' = TRUE
    /\ log_pos' = 0
    /\ console' = console (+) SetToBag({Msg("spawning", 0, <<>>)})
    /\ pcMain' = "spawn_workers"
    /\ UNCHANGED <<now, stdin_blanks, user_string, num_worker_threads,
                   processed_counter, running_flag, start_time, join_index,
                   handler_set, interrupts, log_bytes, workerVars, loggerVars,
                   at_stop, writes_at_stop>>

\* OpenOptions write+create+truncate: the file exists and is empty.
OpenLog ==
    /\ pcMain = "open_log"
    /\ log_exists' = TRUE
    /\ log_bytes' = <<>>
    /\ log_open' = TRUE
    /\ log_pos' = 0
    /\ console' = console (+) SetToBag({Msg("spawning", 0, <<>>)})
    /\ pcMain' = "spawn_workers"
    /\ UNCHANGED <<now, stdin_blanks, user_string, num_worker_threads,
                   processed_counter, running_flag, start_time, join_index,
                   handler_set, interrupts, workerVars, loggerVars,
                   at_stop, writes_at_stop>>

\* open(..)? fails: main returns the error, nothing is spawned.
OpenLogError ==
    /\ pcMain = "open_log"
    /\ pcMain' = "exit_err"
    /\ UNCHANGED <<now, stdin_blanks, user_string, num_worker_threads,
                   processed_counter, running_flag, start_time, join_index,
                   handler_set, interrupts, fileVars, workerVars, loggerVars,
                   console, at_stop, writes_at_stop>>

Spawned == {w \in Workers : pcW[w] # "unspawned"}

\* One pass of the spawn loop: the next worker thread starts.
SpawnWorker ==
    /\ pcMain = "spawn_workers"
    /\ LET k == Cardinality(Spawned) + 1
       IN  /\ pcW' = [pcW EXCEPT ![k] = "check"]
           /\ IF k = num_worker_threads
              THEN /\ pcMain' = "spawn_logger"
                   /\ console' = console (+) SetToBag({Msg("all_spawned", 0, <<>>)})
              ELSE UNCHANGED <<pcMain, console>>
    /\ UNCHANGED <<now, stdin_blanks, user_string, num_worker_threads,
                   processed_counter, running_flag, start_time, join_index,
                   handler_set, interrupts, fileVars, done_ops, loggerVars,
                   at_stop, writes_at_stop>>

SpawnLogger ==
    /\ pcMain = "spawn_logger"
    /\ pcL' = "start"
    /\ pcMain' = "set_handler"
    /\ UNCHANGED <<now, stdin_blanks, user_string, num_worker_threads,
                   processed_counter, running_flag, start_time, join_index,
                   handler_set, interrupts, fileVars, workerVars,
                   last_log_time, wake_at, processed_count,
                   padded_stats_string, writes, console,
                   at_stop, writes_at_stop>>

\* ctrlc::set_handler succeeds; main goes on to wait.
SetHandler ==
    /\ pcMain = "set_handler"
    /\ handler_set' = TRUE
    /\ console' = console (+) SetToBag({Msg("waiting", 0, <<>>)})
    /\ pcMain' = "join"
    /\ UNCHANGED <<now, stdin_blanks, user_string, num_worker_threads,
                   processed_counter, running_flag, start_time, join_index,
                   interrupts, fileVars, workerVars, loggerVars,
                   at_stop, writes_at_stop>>

\* ctrlc::set_handler fails: expect() panics in main, the process ends.
SetHandlerError ==
    /\ pcMain = "set_handler"
    /\ pcMain' = "panicked"
    /\ console' = console (+) SetToBag({Msg("panic", 0, <<>>)})
    /\ UNCHANGED <<now, stdin_blanks, user_string, num_worker_threads,
                   processed_counter, running_flag, start_time, join_index,
                   handler_set, interrupts, fileVars, workerVars, loggerVars,
                   at_stop, writes_at_stop>>

\* Mutant: join does not wait for the thread.
NextHandleFinished_NoWait == TRUE

\* The thread behind the next handle of thread_handles has returned.
NextHandleFinished ==
    IF join_index < num_worker_threads
    THEN pcW[join_index + 1] = "done"
    ELSE pcL = "done"

\* handle.join() of the next handle returns.
JoinThread ==
    /\ pcMain = "join"
    /\ NextHandleFinished
    /\ join_index' = join_index + 1
    /\ pcMain' = IF join_index' = num_worker_threads + 1 THEN "summary" ELSE "join"
    /\ UNCHANGED <<now, stdin_blanks, user_string, num_worker_threads,
                   processed_counter, running_flag, start_time, handler_set,
                   interrupts, fileVars, workerVars, loggerVars, console,
                   at_stop, writes_at_stop>>

\* The final statistics: the counter and the clock are read once, printed.
FinalSummary ==
    /\ pcMain = "summary"
    /\ LET final_count == processed_counter
           total_time == now - start_time
           avg_speed == AverageSpeed(final_count, total_time)
       IN  console' = console (+) SetToBag({
               Msg("summary", final_count, Fixed2(avg_speed[1], avg_speed[2]))})
    /\ pcMain' = "finished"
    /\ UNCHANGED <<now, stdin_blanks, user_string, num_worker_threads,
                   processed_counter, running_flag, start_time, join_index,
                   handler_set, interrupts, fileVars, workerVars, loggerVars,
                   at_stop, writes_at_stop>>

\* ------------------------------------------------------- Ctrl+C handler
\* Mutant: the handler flips the flag instead of storing false.
CtrlC_Toggle ==
    /\ ProcessAlive
    /\ handler_set
    /\ interrupts < MaxInterrupts
    /\ interrupts' = interrupts + 1
    /\ running_flag' = ~running_flag
    /\ at_stop' = IF running_flag THEN done_ops ELSE at_stop
    /\ writes_at_stop' = IF running_flag THEN WriteCalls ELSE writes_at_stop
    /\ console' = console (+) SetToBag({Msg("ctrlc", 0, <<>>)})
    /\ UNCHANGED <<now, mainVars, processed_counter, fileVars, workerVars,
                   loggerVars>>

\* Mutant: the handler also clears the counter.
CtrlC_ResetsCounter ==
    /\ ProcessAlive
    /\ handler_set
    /\ interrupts < MaxInterrupts
    /\ interrupts' = interrupts + 1
    /\ running_flag' = FALSE
    /\ processed_counter' = 0
    /\ at_stop' = IF running_flag THEN done_ops ELSE at_stop
    /\ writes_at_stop' = IF running_flag THEN WriteCalls ELSE writes_at_stop
    /\ console' = console (+) SetToBag({Msg("ctrlc", 0, <<>>)})
    /\ UNCHANGED <<now, mainVars, fileVars, workerVars, loggerVars>>

\* The registered handler: a notice and one store of false.
CtrlC ==
    /\ ProcessAlive
    /\ handler_set
    /\ interrupts < MaxInterrupts
    /\ interrupts' = interrupts + 1
    /\ running_flag' = FALSE
    /\ at_stop' = IF running_flag THEN done_ops ELSE at_stop
    /\ writes_at_stop' = IF running_flag THEN WriteCalls ELSE writes_at_stop
    /\ console' = console (+) SetToBag({Msg("ctrlc", 0, <<>>)})
    /\ UNCHANGED <<now, mainVars, processed_counter, fileVars, workerVars,
                   loggerVars>>

\* ---------------------------------------------------------------- worker
InFlight == {w \in Workers : pcW[w] = "body"}

\* Mutant: the worker loops without looking at the flag.
WorkerCheck_IgnoresFlag(w) ==
    /\ ProcessAlive
    /\ pcW[w] = "check"
    /\ processed_counter + Cardinality(InFlight) < MaxCount
    /\ pcW' = [pcW EXCEPT ![w] = "body"]
    /\ UNCHANGED <<now, mainVars, processed_counter, running_flag, interrupts,
                   fileVars, done_ops, loggerVars, console,
                   at_stop, writes_at_stop>>

\* Mutant: the worker returns at its loop test whatever the flag says.
WorkerCheck_Returns(w) ==
    /\ ProcessAlive
    /\ pcW[w] = "check"
    /\ pcW' = [pcW EXCEPT ![w] = "done"]
    /\ UNCHANGED <<now, mainVars, processed_counter, running_flag, interrupts,
                   fileVars, done_ops, loggerVars, console,
                   at_stop, writes_at_stop>>

\* while running.load(): enter the loop body or return.
WorkerCheck(w) ==
    /\ ProcessAlive
    /\ pcW[w] = "check"
    /\ IF running_flag
       THEN /\ processed_counter + Cardinality(InFlight) < MaxCount
            /\ pcW' = [pcW EXCEPT ![w] = "body"]
       ELSE pcW' = [pcW EXCEPT ![w] = "done"]
    /\ UNCHANGED <<now, mainVars, processed_counter, running_flag, interrupts,
                   fileVars, done_ops, loggerVars, console,
                   at_stop, writes_at_stop>>

\* Mutant: the increment is a store of the thread's own count plus one, not
\* an atomic read-modify-write of the shared counter.
WorkerIterate_LostUpdate(w) ==
    /\ ProcessAlive
    /\ pcW[w] = "body"
    /\ processed_counter' = done_ops[w] + 1
    /\ done_ops' = [done_ops EXCEPT ![w] = @ + 1]
    /\ pcW' = [pcW EXCEPT ![w] = "check"]
    /\ UNCHANGED <<now, mainVars, running_flag, interrupts, fileVars,
                   loggerVars, console, at_stop, writes_at_stop>>

\* Mutant: the flag is tested only before the first iteration; after an
\* increment the worker starts the next body at once.
WorkerIterate_NoRecheck(w) ==
    /\ ProcessAlive
    /\ pcW[w] = "body"
    /\ processed_counter' = processed_counter + 1
    /\ done_ops' = [done_ops EXCEPT ![w] = @ + 1]
    /\ pcW' = [pcW EXCEPT ![w] =
                  IF processed_counter' + Cardinality(InFlight \ {w}) < MaxCount
                  THEN "body" ELSE "check"]
    /\ UNCHANGED <<now, mainVars, running_flag, interrupts, fileVars,
                   loggerVars, console, at_stop, writes_at_stop>>

\* Mutant: the worker also writes its copy of the string to the log.
WorkerIterate_WritesLog(w) ==
    /\ ProcessAlive
    /\ pcW[w] = "body"
    /\ processed_counter' = processed_counter + 1
    /\ done_ops' = [done_ops EXCEPT ![w] = @ + 1]
    /\ pcW' = [pcW EXCEPT ![w] = "check"]
    /\ log_bytes' = Overwrite(log_bytes, 0, user_string)
    /\ UNCHANGED <<now, mainVars, running_flag, interrupts, log_exists,
                   log_open, log_pos, loggerVars, console,
                   at_stop, writes_at_stop>>

\* The loop body: the clone of the shared string is made and dropped (local
\* to the thread), then counter.fetch_add(1), one atomic read-modify-write.
WorkerIterate(w) ==
    /\ ProcessAlive
    /\ pcW[w] = "body"
    /\ processed_counter' = processed_counter + 1
    /\ done_ops' = [done_ops EXCEPT ![w] = @ + 1]
    /\ pcW' = [pcW EXCEPT ![w] = "check"]
    /\ UNCHANGED <<now, mainVars, running_flag, interrupts, fileVars,
                   loggerVars, console, at_stop, writes_at_stop>>

\* ---------------------------------------------------------------- logger
\* The start notice, and last_log_time = Instant::now().
LoggerStart ==
    /\ ProcessAlive
    /\ pcL = "start"
    /\ last_log_time' = now
    /\ console' = console (+) SetToBag({Msg("logger_started", 0, <<>>)})
    /\ pcL' = "loop"
    /\ UNCHANGED <<now, mainVars, processed_counter, running_flag, interrupts,
                   fileVars, workerVars, wake_at, processed_count,
                   padded_stats_string, writes, at_stop, writes_at_stop>>

\* while running.load()
LoggerLoopCheck ==
    /\ ProcessAlive
    /\ pcL = "loop"
    /\ pcL' = IF running_flag THEN "check2" ELSE "stopping"
    /\ UNCHANGED <<now, mainVars, processed_counter, running_flag, interrupts,
                   fileVars, workerVars, last_log_time, wake_at,
                   processed_count, padded_stats_string, writes, console,
                   at_stop, writes_at_stop>>

\* Mutant: every poll that reads the flag true goes on to write.
LoggerPoll_AlwaysDue ==
    /\ ProcessAlive
    /\ pcL = "check2"
    /\ pcL' = IF ~running_flag THEN "stopping" ELSE "read"
    /\ UNCHANGED <<now, mainVars, processed_counter, running_flag, interrupts,
                   fileVars, workerVars, last_log_time, wake_at,
                   processed_count, padded_stats_string, writes, console,
                   at_stop, writes_at_stop>>

\* The second load of the flag (break), then the test of the report period;
\* a poll that is not due goes straight to sleep(check_interval).
LoggerPoll ==
    /\ ProcessAlive
    /\ pcL = "check2"
    /\ IF ~running_flag
       THEN /\ pcL' = "stopping"
            /\ UNCHANGED wake_at
       ELSE IF now - last_log_time >= LOG_UPDATE_INTERVAL_MS
       THEN /\ pcL' = "read"
            /\ UNCHANGED wake_at
       ELSE /\ pcL' = "sleeping"
            /\ wake_at' = now + check_interval
    /\ UNCHANGED <<now, mainVars, processed_counter, running_flag, interrupts,
                   fileVars, workerVars, last_log_time, processed_count,
                   padded_stats_string, writes, console,
                   at_stop, writes_at_stop>>

\* Mutant: the counter is read with swap(0), which resets it.
LoggerRender_ResetsCounter ==
    /\ ProcessAlive
    /\ pcL = "read"
    /\ processed_count' = processed_counter
    /\ processed_counter' = 0
    /\ padded_stats_string' = PaddedStatsString(processed_counter, now - start_time)
    /\ pcL' = "seek"
    /\ UNCHANGED <<now, mainVars, running_flag, interrupts, fileVars,
                   workerVars, last_log_time, wake_at, writes, console,
                   at_stop, writes_at_stop>>

\* A due tick: counter.load(), start_time.elapsed() and the two format!
\* calls, all on the thread's own locals.
LoggerRender ==
    /\ ProcessAlive
    /\ pcL = "read"
    /\ processed_count' = processed_counter
    /\ padded_stats_string' = PaddedStatsString(processed_counter, now - start_time)
    /\ pcL' = "seek"
    /\ UNCHANGED <<now, mainVars, processed_counter, running_flag, interrupts,
                   fileVars, workerVars, last_log_time, wake_at, writes,
                   console, at_stop, writes_at_stop>>

\* Mutant: the cursor is not moved back to the start.
LoggerSeek_NoRewind ==
    /\ ProcessAlive
    /\ pcL = "seek"
    /\ pcL' = "write"
    /\ UNCHANGED <<now, mainVars, processed_counter, running_flag, interrupts,
                   fileVars, workerVars, last_log_time, wake_at,
                   processed_count, padded_stats_string, writes, console,
                   at_stop, writes_at_stop>>

\* lock() and seek(SeekFrom::Start(0)) succeed: the cursor is at offset 0.
LoggerSeek ==
    /\ ProcessAlive
    /\ pcL = "seek"
    /\ log_pos' = 0
    /\ pcL' = "write"
    /\ UNCHANGED <<now, mainVars, processed_counter, running_flag, interrupts,
                   log_exists, log_bytes, log_open, workerVars, last_log_time,
                   wake_at, processed_count, padded_stats_string, writes,
                   console, at_stop, writes_at_stop>>

\* Mutant: a seek failure ends the logger's loop.
LoggerSeekError_Exits ==
    /\ ProcessAlive
    /\ pcL = "seek"
    /\ console' = console (+) SetToBag({Msg("seek_error", 0, <<>>)})
    /\ pcL' = "stopping"
    /\ UNCHANGED <<now, mainVars, processed_counter, running_flag, interrupts,
                   fileVars, workerVars, last_log_time, wake_at,
                   processed_count, padded_stats_string, writes,
                   at_stop, writes_at_stop>>

\* seek fails: a complaint on stderr, nothing is written this tick.
LoggerSeekError ==
    /\ ProcessAlive
    /\ pcL = "seek"
    /\ console' = console (+) SetToBag({Msg("seek_error", 0, <<>>)})
    /\ pcL' = "stamp"
    /\ UNCHANGED <<now, mainVars, processed_counter, running_flag, interrupts,
                   fileVars, workerVars, last_log_time, wake_at,
                   processed_count, padded_stats_string, writes,
                   at_stop, writes_at_stop>>

\* write_all of the whole line at the cursor, then flush.
LoggerWrite ==
    /\ ProcessAlive
    /\ pcL = "write"
    /\ log_bytes' = Overwrite(log_bytes, log_pos, padded_stats_string)
    /\ log_pos' = log_pos + Len(padded_stats_string)
    /\ writes' = Append(writes, <<processed_count, now>>)
    /\ pcL' = "stamp"
    /\ UNCHANGED <<now, mainVars, processed_counter, running_flag, interrupts,
                   log_exists, log_open, workerVars, last_log_time, wake_at,
                   processed_count, padded_stats_string, console,
                   at_stop, writes_at_stop>>

\* write_all fails after some of the bytes went out: a complaint on stderr.
LoggerWriteError ==
    /\ ProcessAlive
    /\ pcL = "write"
    /\ \E k \in {40} :
        /\ log_bytes' = Overwrite(log_bytes, log_pos, SubSeq(padded_stats_string, 1, k))
        /\ log_pos' = log_pos + k
    /\ console' = console (+) SetToBag({Msg("write_error", 0, <<>>)})
    /\ pcL' = "stamp"
    /\ UNCHANGED <<now, mainVars, processed_counter, running_flag, interrupts,
                   log_exists, log_open, workerVars, last_log_time, wake_at,
                   processed_count, padded_stats_string, writes,
                   at_stop, writes_at_stop>>

\* last_log_time = Instant::now(); the tick's locals go out of scope and the
\* thread goes to sleep(check_interval).
LoggerStamp ==
    /\ ProcessAlive
    /\ pcL = "stamp"
    /\ last_log_time' = now
    /\ wake_at' = now + check_interval
    /\ processed_count' = 0
    /\ padded_stats_string' = <<>>
    /\ pcL' = "sleeping"
    /\ UNCHANGED <<now, mainVars, processed_counter, running_flag, interrupts,
                   fileVars, workerVars, writes, console,
                   at_stop, writes_at_stop>>

\* Mutant: after its sleep the logger goes on with a tick, without looking
\* at the flag or at the time.
LoggerWake_SkipsCheck ==
    /\ ProcessAlive
    /\ pcL = "sleeping"
    /\ now >= wake_at
    /\ wake_at' = 0
    /\ pcL' = "read"
    /\ UNCHANGED <<now, mainVars, processed_counter, running_flag, interrupts,
                   fileVars, workerVars, last_log_time, processed_count,
                   padded_stats_string, writes, console,
                   at_stop, writes_at_stop>>

\* thread::sleep returns once at least check_interval has passed.
LoggerWake ==
    /\ ProcessAlive
    /\ pcL = "sleeping"
    /\ now >= wake_at
    /\ wake_at' = 0
    /\ pcL' = "loop"
    /\ UNCHANGED <<now, mainVars, processed_counter, running_flag, interrupts,
                   fileVars, workerVars, last_log_time, processed_count,
                   padded_stats_string, writes, console,
                   at_stop, writes_at_stop>>

\* The loop is left: the stop notice, and the thread returns.
LoggerStop ==
    /\ ProcessAlive
    /\ pcL = "stopping"
    /\ console' = console (+) SetToBag({Msg("logger_stopping", 0, <<>>)})
    /\ pcL' = "done"
    /\ UNCHANGED <<now, mainVars, processed_counter, running_flag, interrupts,
                   fileVars, workerVars, last_log_time, wake_at,
                   processed_count, padded_stats_string, writes,
                   at_stop, writes_at_stop>>

\* ---------------------------------------------------------------- faults
\* println! panics when stdout cannot be written: the logger thread unwinds
\* at its start notice or at its stop notice.
LoggerPanic ==
    /\ ProcessAlive
    /\ pcL \in {"start", "stopping"}
    /\ pcL' = "panicked"
    /\ UNCHANGED <<now, mainVars, processed_counter, running_flag, interrupts,
                   fileVars, workerVars, last_log_time, wake_at,
                   processed_count, padded_stats_string, writes, console,
                   at_stop, writes_at_stop>>

\* handle.join() of the logger's handle returns Err: expect() panics in main.
JoinPanicked ==
    /\ pcMain = "join"
    /\ join_index = num_worker_threads
    /\ pcL = "panicked"
    /\ pcMain' = "panicked"
    /\ console' = console (+) SetToBag({Msg("panic", 0, <<>>)})
    /\ UNCHANGED <<now, stdin_blanks, user_string, num_worker_threads,
                   processed_counter, running_flag, start_time, join_index,
                   handler_set, interrupts, fileVars, workerVars, loggerVars,
                   at_stop, writes_at_stop>>

\* ----------------------------------------------------------------- clock
\* Time passes, ClockStep ms at a time (a sleep may last longer than asked).
\* The clock is an Instant: only differences are read, so it is counted from
\* the instant start_time is taken.  Past MaxTime it passes only to end the
\* sleep of a logger that has been told to stop.
Tick ==
    /\ ProcessAlive
    /\ pcMain \notin {"prompt", "parallelism"}
    /\ \/ now + ClockStep <= MaxTime
       \/ pcL = "sleeping" /\ ~running_flag /\ now < wake_at
    /\ now' = now + ClockStep
    /\ UNCHANGED <<mainVars, processed_counter, running_flag, interrupts,
                   fileVars, workerVars, loggerVars, console,
                   at_stop, writes_at_stop>>

\* --------------------------------------------------------- specification
Main ==
    \/ ReadEOF \/ ReadBlank \/ ReadValid \/ ReadError
    \/ DetectParallelism \/ ParallelismError
    \/ OpenLog \/ OpenLogError
    \/ SpawnWorker \/ SpawnLogger
    \/ SetHandler \/ SetHandlerError
    \/ JoinThread \/ FinalSummary

Worker(w) == WorkerCheck(w) \/ WorkerIterate(w)

Logger ==
    \/ LoggerStart \/ LoggerLoopCheck \/ LoggerPoll
    \/ LoggerRender
    \/ LoggerSeek \/ LoggerSeekError
    \/ LoggerWrite \/ LoggerWriteError
    \/ LoggerStamp \/ LoggerWake \/ LoggerStop

Next ==
    \/ Main
    \/ \E w \in Workers : Worker(w)
    \/ Logger
    \/ CtrlC
    \/ Tick

Spec == Init /\ [][Next]_vars

\* The threads are scheduled and the clock runs: no thread that can take a
\* step is starved of it.
FairSpec ==
    /\ Spec
    /\ WF_vars(Main)
    /\ \A w \in Workers : WF_vars(Worker(w))
    /\ WF_vars(Logger)
    /\ WF_vars(Tick)

\* The program with a logger that can panic.
FaultNext == Next \/ LoggerPanic \/ JoinPanicked

FaultFairSpec ==
    /\ Init /\ [][FaultNext]_vars
    /\ WF_vars(Main)
    /\ WF_vars(JoinPanicked)
    /\ \A w \in Workers : WF_vars(Worker(w))
    /\ WF_vars(Logger)
    /\ WF_vars(Tick)

\* ------------------------------------------------------------ properties
RECURSIVE SumOver(_, _)
SumOver(f, S) ==
    IF S = {} THEN 0
    ELSE LET x == CHOOSE y \in S : TRUE IN f[x] + SumOver(f, S \ {x})

\* Duplications completed so far by all workers together.
Completed == SumOver(done_ops, Workers)

\* Every spawned thread has returned.
AllThreadsDone ==
    /\ \A w \in Workers : w <= num_worker_threads => pcW[w] = "done"
    /\ pcL = "done"

\* C1: no lost updates - the counter always equals the number of loop bodies
\* (duplication + increment) the workers have completed, whatever the number
\* of workers and the interleaving.
C1_NoLostUpdates == processed_counter = Completed

C1_Witness ==
    /\ num_worker_threads = 2
    /\ done_ops[1] >= 1 /\ done_ops[2] >= 1
    /\ processed_counter = MaxCount

\* C2: the counter starts at 0 and no step of any thread lowers it.
C2_CounterMonotonic ==
    /\ processed_counter = 0
    /\ [][processed_counter' >= processed_counter]_vars

C2_Witness ==
    /\ processed_counter >= 2
    /\ writes # <<>>
    /\ interrupts >= 1
    /\ pcMain = "finished"

\* C3: the flag starts true, and once false it is false in every later state.
C3_RunFlagStaysFalse ==
    /\ running_flag = TRUE
    /\ [][~running_flag => ~running_flag']_vars

C3_Witness ==
    /\ ~running_flag
    /\ interrupts = 2
    /\ pcMain = "finished"

\* C4: once the flag is false, every worker and the logger eventually return,
\* main's join of all of them completes and the summary is printed.
C4_ShutdownTerminates ==
    ~running_flag ~> (pcMain = "finished" /\ AllThreadsDone)

C4_Witness ==
    /\ pcMain = "finished"
    /\ AllThreadsDone
    /\ ~running_flag
    /\ num_worker_threads = 2

\* C5: after the flag became false a worker completes at most the one loop
\* body it was in, and is then not in the loop body again; so the counter
\* rises by at most N past its value at that moment.
C5_AtMostOneMoreIteration ==
    ~running_flag =>
        /\ \A w \in Workers :
            /\ done_ops[w] - at_stop[w] <= 1
            /\ done_ops[w] - at_stop[w] = 1 => pcW[w] \in {"check", "done"}
        /\ processed_counter - SumOver(at_stop, Workers) <= num_worker_threads

C5_Witness ==
    /\ ~running_flag
    /\ num_worker_threads = 2
    /\ \A w \in Workers : done_ops[w] = at_stop[w] + 1 /\ pcW[w] = "done"

\* C6 as stated: from the moment the log is opened its contents are one line
\* of exactly LOG_LINE_WIDTH bytes.
C6_Original == log_open => Len(log_bytes) = LOG_LINE_WIDTH

\* C6, amended: the log is empty when opened and never longer than
\* LOG_LINE_WIDTH; every write starts at offset 0; from the first completed
\* write on its length is exactly LOG_LINE_WIDTH.
C6_LogLength ==
    log_open =>
        /\ Len(log_bytes) <= LOG_LINE_WIDTH
        /\ pcL = "write" => log_pos = 0
        /\ writes # <<>> => Len(log_bytes) = LOG_LINE_WIDTH
        /\ writes = <<>> => Len(log_bytes) < LOG_LINE_WIDTH

C6_Witness ==
    /\ Len(writes) = 2
    /\ writes[1][1] # writes[2][1]
    /\ Len(log_bytes) = LOG_LINE_WIDTH

\* C7 as stated: after a graceful shutdown the log holds one line of exactly
\* LOG_LINE_WIDTH bytes.
C7_Original ==
    (pcMain = "finished" /\ interrupts >= 1) => Len(log_bytes) = LOG_LINE_WIDTH

\* C7, amended: after a graceful shutdown the log holds one line of exactly
\* LOG_LINE_WIDTH bytes if a write completed during the run, and less than
\* that (nothing, or the start of a line whose write failed) otherwise.
C7_LogAfterShutdown ==
    (pcMain = "finished" /\ interrupts >= 1) =>
        IF writes # <<>>
        THEN /\ Len(log_bytes) = LOG_LINE_WIDTH
             /\ SubSeq(log_bytes, 1, Len(LabelProcessed)) = LabelProcessed
        ELSE Len(log_bytes) < LOG_LINE_WIDTH

C7_Witness ==
    /\ pcMain = "finished"
    /\ interrupts >= 1
    /\ writes # <<>>
    /\ Len(log_bytes) = LOG_LINE_WIDTH

\* The summary lines on the console.
Summaries == {m \in BagToSet(console) : m.tag = "summary"}

\* C8: the summary is computed only when every thread has returned; the
\* total it prints is the number of loop bodies completed in the run, and no
\* count written to the log exceeds it.
C8_SummaryIsTotal ==
    /\ pcMain \in {"summary", "finished"} => AllThreadsDone
    /\ pcMain = "finished" => Summaries # {}
    /\ \A m \in Summaries :
        /\ m.n = Completed
        /\ \A i \in 1..Len(writes) : writes[i][1] <= m.n

C8_Witness ==
    /\ pcMain = "finished"
    /\ writes # <<>>
    /\ \E m \in Summaries : m.n = MaxCount /\ writes[1][1] < m.n

\* Instants at which the clock can have been read so far.
ClockReadings == {k * ClockStep : k \in 0..(now \div ClockStep)}

Nines(k) == [i \in 1..k |-> "9"]

\* The widest texts the three fields can hold at a report tick: a count of c
\* digits, an elapsed time of e whole-second digits (a tick is at least one
\* reporting period after the start, so e >= 1 digit of a value >= 1), and
\* a speed = count / elapsed, which is below 10^(c-e+1) and so has at most
\* c-e+2 whole digits after rounding (one when elapsed exceeds the count).
WidestStatsStrings ==
    { StatsStringText(Nines(c), Nines(e) \o <<".", "9", "9">>,
                      Nines(IF c - e + 2 > 1 THEN c - e + 2 ELSE 1)
                          \o <<".", "9", "9">>) :
        c \in 1..UsizeDigits, e \in 1..UsizeDigits }

\* Each of them is shorter than LOG_LINE_WIDTH and is padded to exactly it.
WidestStatsStringsFit ==
    \A text \in WidestStatsStrings :
        /\ Len(text) < LOG_LINE_WIDTH
        /\ Len(PadRight(text, LOG_LINE_WIDTH)) = LOG_LINE_WIDTH

\* C9: the line the logger renders and writes is exactly LOG_LINE_WIDTH long:
\* the formatted text followed by nothing but spaces.  The formatted text
\* never reaches LOG_LINE_WIDTH, whatever the magnitude of the count, so the
\* padding alone fixes the width.
C9_LineWidth ==
    /\ WidestStatsStringsFit
    /\ pcL \in {"seek", "write"} =>
        /\ Len(padded_stats_string) = LOG_LINE_WIDTH
        /\ \E e \in ClockReadings :
            LET text == StatsString(processed_count, e - start_time)
            IN  /\ Len(text) < LOG_LINE_WIDTH
                /\ padded_stats_string =
                       text \o Spaces(LOG_LINE_WIDTH - Len(text))

C9_Witness ==
    /\ pcL = "write"
    /\ processed_count = MaxCount
    /\ Len(padded_stats_string) = LOG_LINE_WIDTH
    /\ padded_stats_string[LOG_LINE_WIDTH] = " "

\* The stats lines on the console.
StatsLinesPrinted == {m \in BagToSet(console) : m.tag = "stats"}

\* C10 as stated: every line written to the log has also been printed to the
\* console.
C10_Original ==
    \A i \in 1..Len(writes) :
        \E m \in StatsLinesPrinted : m.n = writes[i][1]

\* A step in which the tick's seek, or its write, fails.
FailedSeek == pcL = "seek" /\ pcL' \notin {"seek", "write"}

FailedWrite == pcL = "write" /\ pcL' # "write" /\ writes' = writes

\* One more line of the given tag is on the console after the step.
Reported(tag) ==
    CopiesIn(Msg(tag, 0, <<>>), console') = CopiesIn(Msg(tag, 0, <<>>), console) + 1

\* After the step the logger is still in its loop, on the way to its sleep,
\* and the process is running.
TickSkipped == pcL' = "stamp" /\ pcMain' = pcMain /\ writes' = writes

\* C11 as stated: a failed seek or write is reported, leaves the log as it
\* was and leaves the logger in its loop.
C11_Original ==
    [][(FailedSeek \/ FailedWrite) =>
          (TickSkipped /\ log_bytes' = log_bytes)]_vars

\* C11, amended: a failed seek or write is reported on the console and
\* leaves the logger in its loop; a failed seek leaves the log as it was; a
\* failed write can have put a leading part of the tick's line at the start
\* of the log, and changes nothing else of it.
C11_FailureSkipsTick ==
    [][/\ FailedSeek =>
            (TickSkipped /\ Reported("seek_error") /\ log_bytes' = log_bytes)
       /\ FailedWrite =>
            /\ TickSkipped
            /\ Reported("write_error")
            /\ \E k \in 0..(Len(padded_stats_string) - 1) :
                /\ Len(log_bytes') =
                       (IF k > Len(log_bytes) THEN k ELSE Len(log_bytes))
                /\ \A i \in 1..Len(log_bytes') :
                       log_bytes'[i] =
                           IF i <= k THEN padded_stats_string[i] ELSE log_bytes[i]
      ]_vars

\* A tick attempts its write after an earlier tick failed and none succeeded.
C11_Witness ==
    /\ pcL = "write"
    /\ writes = <<>>
    /\ \E tag \in {"seek_error", "write_error"} :
           CopiesIn(Msg(tag, 0, <<>>), console) >= 1

\* No worker and no logger thread has been spawned.
NoThreadSpawned == (\A w \in Workers : pcW[w] = "unspawned") /\ pcL = "unspawned"

\* C12 as stated: when startup ends in an error (the log cannot be opened,
\* the handler cannot be registered), no thread was ever spawned.
C12_Original == pcMain \in {"exit_err", "panicked"} => NoThreadSpawned

\* C13 as stated: once a thread has panicked, main stops waiting and the
\* process ends abnormally.
C13_Original == (pcL = "panicked") ~> (pcMain = "panicked")

\* stats.log is as the previous run left it.
LogUntouched ==
    /\ ~log_open
    /\ log_pos = 0
    /\ log_bytes = (IF log_exists THEN OldLine ELSE <<>>)

\* C14: while main is at the prompt, whatever blank lines were read, every
\* one of them was answered by a complaint and a new prompt, no thread is
\* spawned and the log is not opened; once the log is open or a thread is
\* spawned, the text to repeat is a non-empty trimmed input line.
C14_InputGatesStartup ==
    /\ pcMain = "prompt" =>
        /\ NoThreadSpawned
        /\ LogUntouched
        /\ user_string = <<>>
        /\ CopiesIn(Msg("prompt", 0, <<>>), console) = stdin_blanks
        /\ CopiesIn(Msg("empty_input", 0, <<>>), console) = stdin_blanks
    /\ (~NoThreadSpawned \/ log_open) =>
        /\ user_string # <<>>
        /\ \E line \in InputLines : user_string = Trim(line)
        /\ user_string[1] \notin Whitespace
        /\ user_string[Len(user_string)] \notin Whitespace

\* A worker runs with the text of a line that was typed after a blank one.
C14_Witness ==
    /\ stdin_blanks = 1
    /\ \E w \in Workers : pcW[w] = "body"
    /\ user_string = <<"a", "b">>

\* C15: when the input ends at the prompt, the process exits with status 0,
\* stats.log is as it was (not created, not emptied, not written), no thread
\* is spawned and no handler is registered.
C15_EofLeavesNoTrace ==
    pcMain = "exit_eof" =>
        /\ ExitCode = 0
        /\ LogUntouched
        /\ NoThreadSpawned
        /\ ~handler_set
        /\ writes = <<>>
        /\ processed_counter = 0
        /\ CopiesIn(Msg("eof", 0, <<>>), console) = 1

\* The input ended after a blank line, with a log of an earlier run on disk.
C15_Witness ==
    /\ pcMain = "exit_eof"
    /\ stdin_blanks = 1
    /\ log_exists
    /\ log_bytes = OldLine

\* A step of the interrupt handler.
HandlerStep == interrupts' = interrupts + 1

\* C16: every run of the handler leaves the flag false, the counter as it
\* was and main where it was; a run of the handler that finds the flag false
\* changes nothing but the console (its notice); and after two runs of the
\* handler every thread still returns and main finishes.
C16_ShutdownIdempotent ==
    /\ [][HandlerStep =>
            /\ ~running_flag'
            /\ processed_counter' = processed_counter
            /\ pcMain' = pcMain
            /\ ~running_flag =>
                  UNCHANGED <<now, mainVars, processed_counter, running_flag,
                              fileVars, workerVars, loggerVars>>]_vars
    /\ (interrupts >= 2) ~> (pcMain = "finished" /\ AllThreadsDone)

\* The handler ran twice, with two workers, and every thread returned.
C16_Witness ==
    /\ interrupts = 2
    /\ CopiesIn(Msg("ctrlc", 0, <<>>), console) = 2
    /\ num_worker_threads = 2
    /\ AllThreadsDone
    /\ ExitCode = 0

\* A step of a spawned worker, and a step of the spawned logger.
WorkerStep == \E w \in Workers : pcW[w] # "unspawned" /\ pcW'[w] # pcW[w]

LoggerStep == pcL # "unspawned" /\ pcL' # pcL

\* C17: a worker step changes the counter and nothing else that is shared
\* (not the flag, not the log, not the console); a run of the handler
\* changes the flag and prints its notice, nothing else; bytes get into the
\* log in the logger's write step only, and the file position moves in the
\* logger's steps only; a logger step leaves the counter and the flag as
\* they are; and once a thread is spawned the text to repeat, the number of
\* workers and the start time stay as they are.
C17_Ownership ==
    [][/\ WorkerStep =>
            UNCHANGED <<now, mainVars, running_flag, interrupts, fileVars,
                        loggerVars, console>>
       /\ HandlerStep =>
            UNCHANGED <<now, mainVars, processed_counter, fileVars,
                        workerVars, loggerVars>>
       /\ (log_bytes' # log_bytes /\ log_bytes' # <<>>) =>
            (pcL = "write" /\ pcL' # pcL /\ ~WorkerStep /\ ~HandlerStep
             /\ pcMain' = pcMain)
       /\ log_pos' # log_pos => (LoggerStep /\ pcL \in {"seek", "write"})
       /\ LoggerStep =>
            UNCHANGED <<now, mainVars, processed_counter, running_flag,
                        interrupts, workerVars>>
       /\ ~NoThreadSpawned =>
            UNCHANGED <<user_string, num_worker_threads, start_time>>
      ]_vars

\* Workers have counted, the logger has written and stopped, the handler ran.
C17_Witness ==
    /\ \A w \in Workers : done_ops[w] >= 1
    /\ Len(writes) >= 1
    /\ interrupts >= 1
    /\ pcL = "done"
    /\ user_string = <<"a", "b">>

\* C18: while the flag is true no worker has returned and the logger has not
\* left its loop; and, workers being scheduled, every value the counter
\* holds below MaxCount is followed by a larger one unless the handler runs
\* or the process ends.
C18_Progress ==
    /\ [](running_flag =>
            /\ \A w \in Workers : pcW[w] # "done"
            /\ pcL \notin {"stopping", "done"})
    /\ \A v \in 0..(MaxCount - 1) :
          (~NoThreadSpawned /\ processed_counter = v)
              ~> (processed_counter > v \/ ~running_flag \/ ~ProcessAlive)

\* No interrupt came: at the end of the time modelled both workers are in
\* their loops, the logger is in its loop, and the counter is at its bound.
C18_Witness ==
    /\ interrupts = 0
    /\ running_flag
    /\ now = MaxTime
    /\ num_worker_threads = 2
    /\ \A w \in Workers : done_ops[w] >= 1 /\ pcW[w] = "check"
    /\ pcL = "sleeping"
    /\ processed_counter = MaxCount

\* C19: a poll goes on to write only when it has read the flag true and the
\* report period has passed since last_log_time (set at the logger's start
\* and at the end of every tick); a poll made earlier changes nothing of the
\* log; so the logger is about to write only a period or more after
\* last_log_time, nothing is written in the first period, and the instants
\* of consecutive completed writes are a period or more apart.
C19_TwoPeriodReporting ==
    /\ [](/\ pcL \in {"read", "seek", "write"} =>
                now - last_log_time >= LOG_UPDATE_INTERVAL_MS
          /\ now - start_time < LOG_UPDATE_INTERVAL_MS =>
                (writes = <<>> /\ (log_open => log_bytes = <<>>))
          /\ \A i \in 1..Len(writes) :
                /\ writes[i][2] - start_time >= LOG_UPDATE_INTERVAL_MS
                /\ i > 1 => writes[i][2] - writes[i - 1][2]
                                >= LOG_UPDATE_INTERVAL_MS)
    /\ [][/\ (pcL = "check2" /\ pcL' = "read") =>
                (running_flag /\ now - last_log_time >= LOG_UPDATE_INTERVAL_MS)
          /\ (pcL = "check2" /\ LoggerStep
                /\ now - last_log_time < LOG_UPDATE_INTERVAL_MS) =>
                (pcL' \in {"sleeping", "stopping"} /\ UNCHANGED fileVars
                 /\ writes' = writes)
          /\ Len(writes') > Len(writes) => pcL = "write"
         ]_vars

\* Two lines were written, exactly one period apart.
C19_Witness ==
    /\ Len(writes) = 2
    /\ writes[2][2] - writes[1][2] = LOG_UPDATE_INTERVAL_MS
    /\ writes[1][2] = LOG_UPDATE_INTERVAL_MS

\* C20: once the flag is false the logger calls write_all at most once more;
\* a logger that has left its loop changes nothing of the log; the first
\* load of the flag the logger makes after the store of false takes it out
\* of the loop; a sleep in progress ends check_interval or less from now;
\* and a logger that has returned has printed its stop notice, once.
C20_BoundedOvershoot ==
    /\ [](/\ ~running_flag => WriteCalls - writes_at_stop <= 1
          /\ pcL = "sleeping" => wake_at - now <= check_interval
          /\ CopiesIn(Msg("logger_stopping", 0, <<>>), console) =
                (IF pcL = "done" THEN 1 ELSE 0))
    /\ [][/\ (~running_flag /\ pcL \in {"loop", "check2"} /\ LoggerStep) =>
                pcL' = "stopping"
          /\ pcL \in {"stopping", "done"} =>
                (UNCHANGED fileVars /\ writes' = writes
                 /\ pcL' \in {"stopping", "done"})
         ]_vars

\* The handler ran during a tick: the logger completed that tick's write,
\* then left its loop and returned.
C20_Witness ==
    /\ ~running_flag
    /\ Len(writes) = writes_at_stop + 1
    /\ pcL = "done"
    /\ CopiesIn(Msg("logger_stopping", 0, <<>>), console) = 1

====
